---- MODULE Spec2Model ----
(***************************************************************************)
(* The per-frame input state machine of src/src/kapp.rs: Application,      *)
(* FrameInputs and the handler Application::handle_event.  Raw platform    *)
(* events are folded into `current`; MainEventsCleared is the frame        *)
(* boundary, which clones `current` into the snapshot handed to the        *)
(* application logic and then resets the transient fields.                 *)
(*                                                                         *)
(* f32 quantities are modelled by exact numbers: scroll amounts and times  *)
(* by integers, pointer coordinates and the aspect ratio by reduced        *)
(* fractions <<n, d>>.  u32 seeds are pairs <<hi, lo>> of 16-bit limbs so  *)
(* that the 32-bit product is computed without leaving TLC's integers.     *)
(***************************************************************************)
EXTENDS Integers, Sequences, FiniteSets, TLC

\* ------------------------------------------------------------------ bounds

\* Frame boundaries processed in one run.
MaxFrame == 4

\* Scroll events absorbed within one accumulation period.
MaxEvents == 3

\* Raw events delivered in one run that mixes every kind of event.
MaxMixed == 1

\* ------------------------------------------------------------- input sets

Keys == {"A", "B"}
NoKey == "None"
Buttons == {"Left", "Middle", "Right"}
OtherButton == "Other"
ElementStates == {"Pressed", "Released"}
ScrollValues == {-1, 2}
WheelDeltas == [kind : {"LineDelta", "PixelDelta"}, x : {1}, y : ScrollValues]
PosValues == {[x |-> 0, y |-> 0], [x |-> 800, y |-> 400], [x |-> 400, y |-> 1600]}
SizeValues ==
  {[width |-> 800, height |-> 600], [width |-> 1600, height |-> 1600],
   [width |-> 0, height |-> 0]}
DtValues == {1, 2}
SoundLists == {<< >>, <<"s1", "s2">>}
DrawLists == {<< >>, <<"d1">>}

\* ------------------------------------------------------ exact fractions

RECURSIVE GCD(_, _)
GCD(a, b) == IF b = 0 THEN a ELSE GCD(b, a % b)

Abs(n) == IF n < 0 THEN -n ELSE n

\* The f32 values that are not numbers: the quotients x / 0.
PosInf == <<1, 0>>
NegInf == <<-1, 0>>
NaN == <<0, 0>>

\* f32 division x / y for y >= 0, as a reduced fraction; x / 0 is an
\* infinity and 0 / 0 is NaN, as in IEEE 754 (no trap, no panic).
Div(n, d) ==
  IF d = 0 THEN (IF n = 0 THEN NaN ELSE IF n > 0 THEN PosInf ELSE NegInf)
  ELSE LET g == GCD(Abs(n), d) IN IF n = 0 THEN <<0, 1>> ELSE <<n \div g, d \div g>>

\* f32 subtraction.
Sub(p, q) ==
  IF p = NaN \/ q = NaN THEN NaN
  ELSE IF p[2] = 0 /\ q[2] = 0 THEN (IF p = q THEN NaN ELSE p)
  ELSE IF p[2] = 0 THEN p
  ELSE IF q[2] = 0 THEN <<-q[1], 0>>
  ELSE Div(p[1] * q[2] - q[1] * p[2], p[2] * q[2])

Zero == <<0, 1>>
One == <<1, 1>>

Vec2New(x, y) == [x |-> x, y |-> y]

Vec2Zero == Vec2New(Zero, Zero)

Vec2Sub(a, b) == Vec2New(Sub(a.x, b.x), Sub(a.y, b.y))

RectNew(x, y, w, h) == [x |-> x, y |-> y, w |-> w, h |-> h]

\* Rect::aspect: width over height.
aspect(r) == Div(r.w[1] * r.h[2], r.w[2] * r.h[1])

\* ---------------------------------------------------------- u32 arithmetic

\* The 64-bit product of two u32 values, as its eight bytes, low byte first.
full_mul(a, b) ==
  LET a0 == a[2] % 256
      a1 == a[2] \div 256
      a2 == a[1] % 256
      a3 == a[1] \div 256
      b0 == b[2] % 256
      b1 == b[2] \div 256
      b2 == b[1] % 256
      b3 == b[1] \div 256
      s0 == a0 * b0
      s1 == a0 * b1 + a1 * b0 + (s0 \div 256)
      s2 == a0 * b2 + a1 * b1 + a2 * b0 + (s1 \div 256)
      s3 == a0 * b3 + a1 * b2 + a2 * b1 + a3 * b0 + (s2 \div 256)
      s4 == a1 * b3 + a2 * b2 + a3 * b1 + (s3 \div 256)
      s5 == a2 * b3 + a3 * b2 + (s4 \div 256)
      s6 == a3 * b3 + (s5 \div 256)
  IN  << s0 % 256, s1 % 256, s2 % 256, s3 % 256,
         s4 % 256, s5 % 256, s6 % 256, s6 \div 256 >>

\* u32 multiplication reduced modulo 2^32.
wrapping_mul(a, b) ==
  LET p == full_mul(a, b) IN << p[4] * 256 + p[3], p[2] * 256 + p[1] >>

\* The mathematical product does not fit 32 bits.
mul_overflows(a, b) ==
  LET p == full_mul(a, b) IN p[5] + p[6] + p[7] + p[8] > 0

RECURSIVE Xor16(_, _)
Xor16(a, b) ==
  IF a = 0 /\ b = 0 THEN 0
  ELSE (((a % 2) + (b % 2)) % 2) + 2 * Xor16(a \div 2, b \div 2)

Xor32(a, b) == <<Xor16(a[1], b[1]), Xor16(a[2], b[2])>>

\* x ^ (x >> 16)
XorShift16(a) == <<a[1], Xor16(a[2], a[1])>>

\* 196513497 = 0x0BB68ED9
SeedMultiplier == <<2998, 36569>>

\* 2747636419 = 0xA3C59AC3
HashXor == <<41925, 39619>>

\* 2654435769 = 0x9E3779B9
HashMul == <<40503, 31161>>

\* kmath::khash, the fixed mixing function.
khash(s) ==
  LET s1 == wrapping_mul(Xor32(s, HashXor), HashMul)
      s2 == wrapping_mul(XorShift16(s1), HashMul)
  IN  wrapping_mul(XorShift16(s2), HashMul)

\* Duration::from_nanos(34123123).subsec_nanos(), the fallback seed.
FallbackSeed == <<520, 44403>>

\* Values of SystemTime::now()...subsec_nanos() the model starts from.
SeedValues == {<<0, 21>>, FallbackSeed}

\* ------------------------------------------------------------------- state

VARIABLES
  pc,                \* "running", "exited" (process::exit) or "panicked"
  overflow_checks,   \* build profile: TRUE when u32 overflow panics
  current,           \* Application.current : FrameInputs
  instant_mouse_pos, \* Application.instant_mouse_pos
  video,             \* Application.video : xres, yres, viewport
  t_last,            \* Application.t_last
  state,             \* the clone handed to root_scene.frame at the last boundary
  calls,             \* collaborator calls made by the last boundary, in order
  h,                 \* history of the run, read by the properties only
  budget             \* raw events the platform may still deliver in a mixed run

vars == <<pc, overflow_checks, current, instant_mouse_pos, video, t_last, state, calls, h, budget>>

\* FrameInputs::new
FrameInputsNew(a, seed) ==
  [ screen_rect |-> RectNew(Zero, Zero, a, One),
    mouse_pos   |-> Vec2New(Zero, Zero),
    mouse_delta |-> Vec2New(Zero, Zero),
    scroll_delta |-> 0,
    curr_keys   |-> {},
    prev_keys   |-> {},
    repeat_keys |-> {},
    lmb |-> "Released",
    rmb |-> "Released",
    mmb |-> "Released",
    t |-> 0,
    dt |-> 0,
    frame |-> 0,
    seed |-> seed ]

\* FrameOutputs::new: all containers empty, canvas sized to the aspect ratio.
FrameOutputsNew(a) ==
  [ canvas |-> a, set_texture |-> << >>, draw_texture |-> << >>,
    glyphs |-> << >>, sounds |-> << >> ]

xres0 == 1600
yres0 == 1600

\* The part of a snapshot the history keeps of the one before the last.
Kept(fi) ==
  [ curr_keys |-> fi.curr_keys, mouse_pos |-> fi.mouse_pos, seed |-> fi.seed,
    frame |-> fi.frame, scroll_delta |-> fi.scroll_delta ]

\* The history follows one key (wk) and one button (wb), any of them.
HistInit(seed, wk, wb) ==
  [ snapshots |-> 0,
    prev      |-> Kept(FrameInputsNew(One, seed)),
    seed0     |-> seed,
    raw_pos   |-> Vec2Zero,
    quit      |-> FALSE,
    late      |-> FALSE,
    scroll_sum |-> 0,
    closed_scroll_sum |-> 0,
    scrolls   |-> 0,
    closed_scrolls |-> 0,
    wb        |-> wb,
    last_ev   |-> "none",
    age       |-> 0,
    pressed_in |-> FALSE,
    closed_pressed_in |-> FALSE,
    wk        |-> wk,
    down      |-> FALSE,
    rep       |-> FALSE,
    klast     |-> "none",
    kage      |-> 0,
    scen      |-> "none",
    stage     |-> 0,
    newdown_in |-> FALSE,
    closed_newdown_in |-> FALSE,
    size      |-> [width |-> xres0, height |-> yres0],
    closed_size |-> [width |-> xres0, height |-> yres0],
    ev        |-> "none",
    closed_rep |-> FALSE,
    prev_rep  |-> FALSE,
    closed_klast |-> "none",
    prev_status |-> "Released",
    closed_last |-> "none",
    motion    |-> Vec2Zero,
    moves     |-> 0,
    closed_moves |-> 0,
    logic     |-> [sounds |-> << >>, draw_texture |-> << >>],
    prev_logic |-> [sounds |-> << >>, draw_texture |-> << >>] ]

\* Application::new
Init ==
  /\ pc = "running"
  /\ overflow_checks \in BOOLEAN
  /\ \E seed \in SeedValues, wk \in Keys, wb \in Buttons :
       /\ current = FrameInputsNew(Div(xres0, yres0), seed)
       /\ h = HistInit(seed, wk, wb)
  /\ instant_mouse_pos = Vec2Zero
  /\ video = [xres |-> xres0, yres |-> yres0, viewport |-> <<0, 0, xres0, yres0>>]
  /\ t_last = 0
  /\ state = current
  /\ calls = << >>
  /\ budget = MaxMixed

\* ---------------------------------------------------------- pure helpers

Min(a, b) == IF a < b THEN a ELSE b

\* on_key with the key-down of a key not yet held filed as a repeat.
on_key_lost(cur, code, st) ==
  IF st = "Pressed"
  THEN [cur EXCEPT !.repeat_keys = @ \cup {code}]
  ELSE [cur EXCEPT !.curr_keys = @ \ {code}]

\* on_key with a repeat that lets go of the key.
on_key_repeat_unheld(cur, code, st) ==
  IF st = "Pressed"
  THEN IF code \in cur.curr_keys
       THEN [cur EXCEPT !.repeat_keys = @ \cup {code}, !.curr_keys = @ \ {code}]
       ELSE [cur EXCEPT !.curr_keys = @ \cup {code}]
  ELSE [cur EXCEPT !.curr_keys = @ \ {code}]

\* on_key with a key-up that toggles: it inserts a key that is not held.
on_key_toggle(cur, code, st) ==
  IF st = "Pressed"
  THEN IF code \in cur.curr_keys
       THEN [cur EXCEPT !.repeat_keys = @ \cup {code}]
       ELSE [cur EXCEPT !.curr_keys = @ \cup {code}]
  ELSE IF code \in cur.curr_keys
       THEN [cur EXCEPT !.curr_keys = @ \ {code}]
       ELSE [cur EXCEPT !.curr_keys = @ \cup {code}]

\* on_key with the repeat signal dropped.
on_key_norepeat(cur, code, st) ==
  IF st = "Pressed"
  THEN [cur EXCEPT !.curr_keys = @ \cup {code}]
  ELSE [cur EXCEPT !.curr_keys = @ \ {code}]

\* KeyboardInput with a resolved virtual key code (lines 144-152).
on_key(cur, code, st) ==
  IF st = "Pressed"
  THEN IF code \in cur.curr_keys
       THEN [cur EXCEPT !.repeat_keys = @ \cup {code}]
       ELSE [cur EXCEPT !.curr_keys = @ \cup {code}]
  ELSE [cur EXCEPT !.curr_keys = @ \ {code}]

\* The status a MouseInput event writes (lines 155-159, 162-166, 169-173).
button_status(st) == IF st = "Pressed" THEN "JustPressed" ELSE "JustReleased"

\* on_button that keeps a transient status already set in the period.
on_button_first_wins(cur, button, st) ==
  CASE button = "Left" ->
         [cur EXCEPT !.lmb = IF @ \in {"JustPressed", "JustReleased"} THEN @ ELSE button_status(st)]
    [] button = "Middle" ->
         [cur EXCEPT !.mmb = IF @ \in {"JustPressed", "JustReleased"} THEN @ ELSE button_status(st)]
    [] button = "Right" ->
         [cur EXCEPT !.rmb = IF @ \in {"JustPressed", "JustReleased"} THEN @ ELSE button_status(st)]

\* MouseInput for the left, middle or right button (lines 154-174).
on_button(cur, button, st) ==
  CASE button = "Left"   -> [cur EXCEPT !.lmb = button_status(st)]
    [] button = "Middle" -> [cur EXCEPT !.mmb = button_status(st)]
    [] button = "Right"  -> [cur EXCEPT !.rmb = button_status(st)]

\* MouseWheel: LineDelta(_, y) or PixelDelta(p) with p.y (lines 177-186).
on_wheel(cur, delta) == [cur EXCEPT !.scroll_delta = delta.y]

\* cursor_target with the motion written into the snapshot fields at once.
cursor_target_direct(cur, p) ==
  [cur EXCEPT !.mouse_delta = Vec2Sub(p, cur.mouse_pos), !.mouse_pos = p]

\* What CursorMoved does to the accumulation state: nothing, line 194 writes
\* instant_mouse_pos only.
cursor_target(cur, p) == cur

\* CursorMoved: both axes divided by the vertical resolution (line 194).
cursor_pos(pos, v) == Vec2New(Div(pos.x, v.yres), Div(pos.y, v.yres))

\* ignore that lets go of the held keys, as on a loss of focus.
ignore_releases(cur) == [cur EXCEPT !.curr_keys = {}]

\* The wildcard arms `_ => {}` of lines 205 and 232.
ignore(cur) == cur

\* resized_rect with the quotient inverted.
resized_rect_inverse(v) == RectNew(Zero, Zero, Div(v.yres, v.xres), One)

\* Line 203: the viewport rectangle of a resolution.
resized_rect(v) == RectNew(Zero, Zero, Div(v.xres, v.yres), One)

\* collapse that leaves the transient statuses in place.
collapse_never(s) == s

\* The status match of lines 221-223.
collapse(s) ==
  CASE s \in {"JustPressed", "Pressed"} -> "Pressed"
    [] s \in {"JustReleased", "Released"} -> "Released"

\* The seed advance of line 219, in a build where the product wraps.
next_seed(seed) == khash(wrapping_mul(seed, SeedMultiplier))

\* begin_frame with lines 214 and 215 swapped: the delta is read after the move.
begin_frame_swapped(cur, imp, dt) ==
  [cur EXCEPT !.dt = dt,
              !.t = @ + dt,
              !.frame = @ + 1,
              !.mouse_delta = Vec2Sub(imp, imp),
              !.mouse_pos = imp]

\* Lines 208-215: clock, frame counter, pointer delta and position.
begin_frame(cur, imp, dt) ==
  [cur EXCEPT !.dt = dt,
              !.t = @ + dt,
              !.frame = @ + 1,
              !.mouse_delta = Vec2Sub(imp, cur.mouse_pos),
              !.mouse_pos = imp]

\* clone taken before line 213 has counted the frame.
clone_before_count(cur) == [cur EXCEPT !.frame = @ - 1]

\* clone taken one statement late, after line 217.
clone_after_roll(cur) == [cur EXCEPT !.prev_keys = cur.curr_keys]

\* Line 216: the snapshot is a clone of the live state.
clone(cur) == cur

\* roll_keys without line 218.
roll_keys_keep_repeat(cur) == [cur EXCEPT !.prev_keys = cur.curr_keys]

\* roll_keys without line 217.
roll_keys_stale(cur) == [cur EXCEPT !.repeat_keys = {}]

\* Lines 217-218: the statements between the clone and the seed advance.
roll_keys(cur) == [cur EXCEPT !.prev_keys = cur.curr_keys, !.repeat_keys = {}]

\* reset_pass without line 220.
reset_pass_keep_scroll(cur) ==
  [roll_keys(cur) EXCEPT !.seed = next_seed(cur.seed),
                         !.lmb = collapse(cur.lmb),
                         !.mmb = collapse(cur.mmb),
                         !.rmb = collapse(cur.rmb)]

\* reset_pass with the frame time stirred into the seed.
reset_pass_clock_seed(cur) ==
  [roll_keys(cur) EXCEPT !.seed = next_seed(<<cur.seed[1], (cur.seed[2] + cur.dt) % 65536>>),
                         !.scroll_delta = 0,
                         !.lmb = collapse(cur.lmb),
                         !.mmb = collapse(cur.mmb),
                         !.rmb = collapse(cur.rmb)]

\* Lines 217-223: the reset pass after the clone.
reset_pass(cur) ==
  [roll_keys(cur) EXCEPT !.seed = next_seed(cur.seed),
                         !.scroll_delta = 0,
                         !.lmb = collapse(cur.lmb),
                         !.mmb = collapse(cur.mmb),
                         !.rmb = collapse(cur.rmb)]

RECURSIVE audio_calls(_)
audio_calls(sounds) ==
  IF sounds = << >> THEN << >>
  ELSE <<[fn |-> "audio.handle_command", arg |-> Head(sounds)]>> \o audio_calls(Tail(sounds))

\* RootScene::frame, the application logic: it reads the snapshot and appends
\* `sounds` and `draws` to the outputs it was handed.
root_scene_frame(inputs, outputs, sounds, draws) ==
  [outputs EXCEPT !.sounds = @ \o sounds, !.draw_texture = @ \o draws]

\* dispatch with the render call made before the sound commands are handled.
dispatch_render_first(snap, sounds, draws) ==
  LET fresh == FrameOutputsNew(aspect(snap.screen_rect))
      new_outputs == root_scene_frame(snap, fresh, sounds, draws)
  IN  <<[fn |-> "root_scene.frame", arg |-> [inputs |-> snap, outputs |-> fresh]]>>
      \o <<[fn |-> "video.render",
            arg |-> [outputs |-> new_outputs, aspect |-> aspect(snap.screen_rect)]]>>
      \o audio_calls(new_outputs.sounds)

\* Lines 225-230: fresh outputs, application logic, audio, render.  Each
\* call is recorded with what it is handed: the logic gets the snapshot and
\* the fresh outputs, the renderer the outputs the logic left and the aspect.
dispatch(snap, sounds, draws) ==
  LET fresh == FrameOutputsNew(aspect(snap.screen_rect))
      new_outputs == root_scene_frame(snap, fresh, sounds, draws)
  IN  <<[fn |-> "root_scene.frame", arg |-> [inputs |-> snap, outputs |-> fresh]]>>
      \o audio_calls(new_outputs.sounds)
      \o <<[fn |-> "video.render",
            arg |-> [outputs |-> new_outputs, aspect |-> aspect(snap.screen_rect)]]>>

\* The status field of a button.
status(fi, button) ==
  CASE button = "Left" -> fi.lmb
    [] button = "Middle" -> fi.mmb
    [] button = "Right" -> fi.rmb

key_held(fi, k) == k \in fi.curr_keys

key_pressed(fi, k) == k \in fi.curr_keys /\ k \notin fi.prev_keys

key_pressed_or_repeating(fi, k) ==
  (k \in fi.curr_keys /\ k \notin fi.prev_keys) \/ k \in fi.repeat_keys

key_released(fi, k) == k \notin fi.curr_keys /\ k \in fi.prev_keys

\* ------------------------------------------------------- history updates

\* h.ev tells what the last raw event was: "noop" for an event the handler
\* has no arm for, "reup" for a key-up of the watched key that found it not
\* held, "motion" for a pointer motion, "none" for anything else.
hist_noop(hh) == [hh EXCEPT !.ev = "noop"]

hist_key(hh, k, st) ==
  IF k # hh.wk THEN [hh EXCEPT !.ev = "none"]
  ELSE IF st = "Pressed"
  THEN [hh EXCEPT
          !.ev = "none",
          !.down = TRUE,
          !.rep = @ \/ hh.down,
          !.newdown_in = @ \/ ~hh.down,
          !.scen = IF ~hh.down /\ ~(hh.klast # "none" /\ hh.kage = 0) THEN "down" ELSE "none",
          !.stage = 0,
          !.klast = "down",
          !.kage = 0]
  ELSE [hh EXCEPT
          !.ev = IF hh.down THEN "none" ELSE "reup",
          !.down = FALSE,
          !.scen = IF hh.scen = "down" /\ hh.stage >= 1 THEN "up" ELSE "none",
          !.stage = 0,
          !.klast = "up",
          !.kage = 0]

hist_button(hh, b, st) ==
  IF b # hh.wb THEN [hh EXCEPT !.ev = "none"]
  ELSE [hh EXCEPT
          !.ev = "none",
          !.last_ev = IF st = "Pressed" THEN "press" ELSE "release",
          !.age = 0,
          !.pressed_in = @ \/ st = "Pressed"]

hist_wheel(hh, delta) ==
  [hh EXCEPT !.ev = "none", !.scroll_sum = @ + delta.y, !.scrolls = @ + 1]

\* The position a motion event reports, in units of the vertical resolution
\* yres in force when it arrived.
hist_motion(hh, pos, yres) ==
  [hh EXCEPT !.ev = "motion",
             !.motion = Vec2New(Div(pos.x, yres), Div(pos.y, yres)),
             !.moves = Min(@ + 1, 2)]

hist_resize(hh, size) == [hh EXCEPT !.ev = "none", !.size = size]

\* old is the snapshot before the one being taken, imp the raw pointer
\* position at the boundary, sounds and draws what the application logic
\* appends to the outputs of the frame.
hist_boundary(hh, old, imp, sounds, draws) ==
  [hh EXCEPT
     !.ev = "none",
     !.closed_size = hh.size,
     !.closed_rep = hh.rep,
     !.prev_rep = hh.closed_rep,
     !.closed_klast = IF hh.kage = 0 THEN hh.klast ELSE "none",
     !.closed_last = IF hh.age = 0 THEN hh.last_ev ELSE "none",
     !.prev_status = IF hh.snapshots = 0 THEN "Released" ELSE status(old, hh.wb),
     !.closed_moves = hh.moves,
     !.moves = 0,
     !.logic = [sounds |-> sounds, draw_texture |-> draws],
     !.prev_logic = hh.logic,
     !.snapshots = @ + 1,
     !.prev = Kept(old),
     !.raw_pos = imp,
     !.late = hh.quit,
     !.closed_scroll_sum = hh.scroll_sum,
     !.scroll_sum = 0,
     !.closed_scrolls = hh.scrolls,
     !.scrolls = 0,
     !.age = IF hh.last_ev = "none" THEN 0 ELSE Min(hh.age + 1, 2),
     !.closed_pressed_in = hh.pressed_in,
     !.pressed_in = FALSE,
     !.rep = FALSE,
     !.kage = IF hh.klast = "none" THEN 0 ELSE Min(hh.kage + 1, 2),
     !.stage = IF hh.scen = "none" THEN 0 ELSE Min(hh.stage + 1, 2),
     !.closed_newdown_in = hh.newdown_in,
     !.newdown_in = FALSE]

\* ------------------------------------------------- Application::handle_event

\* exit that returns to the event loop instead of ending the process.
exit_returns == pc' = pc

\* Application::exit: process::exit(0).
exit == pc' = "exited"

LoopDestroyed ==
  /\ pc = "running"
  /\ exit
  /\ h' = [h EXCEPT !.quit = TRUE, !.ev = "none"]
  /\ UNCHANGED <<overflow_checks, current, instant_mouse_pos, video, t_last, state, calls>>

CloseRequested ==
  /\ pc = "running"
  /\ exit
  /\ h' = [h EXCEPT !.quit = TRUE, !.ev = "none"]
  /\ UNCHANGED <<overflow_checks, current, instant_mouse_pos, video, t_last, state, calls>>

KeyboardInput(code, st) ==
  /\ pc = "running"
  /\ IF code = NoKey
     THEN /\ current' = ignore(current)
          /\ h' = hist_noop(h)
     ELSE /\ current' = on_key(current, code, st)
          /\ h' = hist_key(h, code, st)
  /\ UNCHANGED <<pc, overflow_checks, instant_mouse_pos, video, t_last, state, calls>>

MouseInput(button, st) ==
  /\ pc = "running"
  /\ IF button = OtherButton
     THEN /\ current' = ignore(current)
          /\ h' = hist_noop(h)
     ELSE /\ current' = on_button(current, button, st)
          /\ h' = hist_button(h, button, st)
  /\ UNCHANGED <<pc, overflow_checks, instant_mouse_pos, video, t_last, state, calls>>

MouseWheel(delta) ==
  /\ pc = "running"
  /\ h.scrolls < MaxEvents
  /\ current' = on_wheel(current, delta)
  /\ h' = hist_wheel(h, delta)
  /\ UNCHANGED <<pc, overflow_checks, instant_mouse_pos, video, t_last, state, calls>>

CursorMoved(pos) ==
  /\ pc = "running"
  /\ instant_mouse_pos' = cursor_pos(pos, video)
  /\ current' = cursor_target(current, instant_mouse_pos')
  /\ h' = hist_motion(h, pos, video.yres)
  /\ UNCHANGED <<pc, overflow_checks, video, t_last, state, calls>>

Resized(physical_size) ==
  /\ pc = "running"
  /\ video' = [xres |-> physical_size.width,
               yres |-> physical_size.height,
               viewport |-> <<0, 0, physical_size.width, physical_size.height>>]
  /\ current' = [current EXCEPT !.screen_rect = resized_rect(video')]
  /\ h' = hist_resize(h, physical_size)
  /\ UNCHANGED <<pc, overflow_checks, instant_mouse_pos, t_last, state, calls>>

\* Any other WindowEvent or Event: the wildcard arms of lines 205 and 232.
Ignored ==
  /\ pc = "running"
  /\ current' = ignore(current)
  /\ h' = hist_noop(h)
  /\ UNCHANGED <<pc, overflow_checks, instant_mouse_pos, video, t_last, state, calls>>

\* The frame boundary (lines 207-231).  dt is the wall-clock time since the
\* last boundary, sounds and draws what the application logic asks to play
\* and to draw.
MainEventsCleared(dt, sounds, draws) ==
  /\ pc = "running"
  /\ current.frame < MaxFrame
  /\ t_last' = t_last + dt
  /\ LET pre == begin_frame(current, instant_mouse_pos, dt)
     IN  IF overflow_checks /\ mul_overflows(pre.seed, SeedMultiplier)
         THEN /\ pc' = "panicked"
              /\ current' = roll_keys(pre)
              /\ UNCHANGED <<state, calls, h>>
         ELSE /\ pc' = pc
              /\ state' = clone(pre)
              /\ current' = reset_pass(pre)
              /\ calls' = dispatch(state', sounds, draws)
              /\ h' = hist_boundary(h, state, instant_mouse_pos, sounds, draws)
  /\ UNCHANGED <<overflow_checks, instant_mouse_pos, video>>

\* ----------------------------------------------------------- specifications

\* What the platform delivers.  Every specification below runs the same
\* handlers from the same Init; they differ in the kinds of raw event the
\* event loop delivers between frame boundaries.

KeyEvents ==
  \E code \in Keys \cup {NoKey}, st \in ElementStates : KeyboardInput(code, st)

ButtonEvents ==
  \E b \in Buttons \cup {OtherButton}, st \in ElementStates : MouseInput(b, st)

WheelEvents == \E delta \in WheelDeltas : MouseWheel(delta)

PointerEvents ==
  \/ \E pos \in PosValues : CursorMoved(pos)
  \/ \E size \in SizeValues : Resized(size)

\* A frame boundary one time unit after the last, with silent application logic.
Tick == MainEventsCleared(1, << >>, << >>)

\* A frame boundary after any clock step, with silent application logic.
Clock == \E dt \in DtValues : MainEventsCleared(dt, << >>, << >>)

\* A frame boundary one time unit after the last, with any output of the
\* application logic.
Output ==
  \E sounds \in SoundLists, draws \in DrawLists : MainEventsCleared(1, sounds, draws)

\* The single-kind specifications start with the fallback seed.
InitFallback == Init /\ current.seed = FallbackSeed

\* The history follows any key.
InitKeys == InitFallback /\ h.wb = "Left"

\* The history follows any button.
InitButtons == InitFallback /\ h.wk = "A"

InitOther == InitFallback /\ h.wk = "A" /\ h.wb = "Left"

\* Any seed and either build profile.
InitMixed == Init /\ h.wk = "A" /\ h.wb = "Left"

\* Keyboard only, every event with a virtual key code.
NextKeys ==
  \/ (\E code \in Keys, st \in ElementStates : KeyboardInput(code, st)) /\ UNCHANGED budget
  \/ Tick /\ UNCHANGED budget
  \/ LoopDestroyed /\ UNCHANGED budget
  \/ CloseRequested /\ UNCHANGED budget

SpecKeys == InitKeys /\ [][NextKeys]_vars

\* The left, middle and right pointer buttons only.
NextButtons ==
  \/ (\E b \in Buttons, st \in ElementStates : MouseInput(b, st)) /\ UNCHANGED budget
  \/ Tick /\ UNCHANGED budget
  \/ LoopDestroyed /\ UNCHANGED budget
  \/ CloseRequested /\ UNCHANGED budget

SpecButtons == InitButtons /\ [][NextButtons]_vars

\* Scroll wheel only.
NextWheel ==
  \/ WheelEvents /\ UNCHANGED budget
  \/ Tick /\ UNCHANGED budget
  \/ LoopDestroyed /\ UNCHANGED budget
  \/ CloseRequested /\ UNCHANGED budget

SpecWheel == InitOther /\ [][NextWheel]_vars

\* Pointer motion and window resizes.
NextPointer ==
  \/ PointerEvents /\ UNCHANGED budget
  \/ Tick /\ UNCHANGED budget
  \/ LoopDestroyed /\ UNCHANGED budget
  \/ CloseRequested /\ UNCHANGED budget

SpecPointer == InitOther /\ [][NextPointer]_vars

\* Keyboard and pointer buttons together: the events of one key and of one
\* button, any of the three.
NextInput ==
  \/ (\E st \in ElementStates : KeyboardInput(h.wk, st)) /\ UNCHANGED budget
  \/ (\E st \in ElementStates : MouseInput(h.wb, st)) /\ UNCHANGED budget
  \/ Tick /\ UNCHANGED budget
  \/ LoopDestroyed /\ UNCHANGED budget
  \/ CloseRequested /\ UNCHANGED budget

SpecInput == InitButtons /\ [][NextInput]_vars

\* Events the handler has no arm for, among the events of one key and one
\* button.
NextIgnored ==
  \/ (\E st \in ElementStates : KeyboardInput(h.wk, st)) /\ UNCHANGED budget
  \/ (\E st \in ElementStates : KeyboardInput(NoKey, st)) /\ UNCHANGED budget
  \/ (\E st \in ElementStates : MouseInput(h.wb, st)) /\ UNCHANGED budget
  \/ (\E st \in ElementStates : MouseInput(OtherButton, st)) /\ UNCHANGED budget
  \/ Ignored /\ UNCHANGED budget
  \/ Tick /\ UNCHANGED budget
  \/ LoopDestroyed /\ UNCHANGED budget
  \/ CloseRequested /\ UNCHANGED budget

SpecIgnored == InitOther /\ [][NextIgnored]_vars

\* The frame dispatch: the events of one key between boundaries with any
\* output of the application logic.
NextDispatch ==
  \/ (\E st \in ElementStates : KeyboardInput(h.wk, st)) /\ UNCHANGED budget
  \/ Output /\ UNCHANGED budget
  \/ LoopDestroyed /\ UNCHANGED budget
  \/ CloseRequested /\ UNCHANGED budget

SpecDispatch == InitOther /\ [][NextDispatch]_vars

\* Every kind of event, at most MaxMixed of them in a run, with any
\* wall-clock step at the boundaries.
Spend == budget > 0 /\ budget' = budget - 1

Next ==
  \/ KeyEvents /\ Spend
  \/ ButtonEvents /\ Spend
  \/ WheelEvents /\ Spend
  \/ PointerEvents /\ Spend
  \/ Ignored /\ Spend
  \/ Clock /\ UNCHANGED budget
  \/ LoopDestroyed /\ UNCHANGED budget
  \/ CloseRequested /\ UNCHANGED budget

Spec == InitMixed /\ [][Next]_vars

\* ------------------------------------------------------------- properties

\* C1: the snapshot's prev_keys is the curr_keys of the snapshot before it
\* (empty at the first boundary), so key_pressed holds exactly for the keys
\* that entered curr_keys since the previous snapshot, key_released exactly
\* for those that left it, and no key is both.
C1_EdgeDetection ==
  h.snapshots >= 1 =>
    LET before == IF h.snapshots = 1 THEN {} ELSE h.prev.curr_keys
    IN  /\ state.prev_keys = before
        /\ \A k \in Keys :
             /\ key_pressed(state, k) <=> (k \in state.curr_keys /\ k \notin before)
             /\ key_released(state, k) <=> (k \in before /\ k \notin state.curr_keys)
             /\ ~(key_pressed(state, k) /\ key_released(state, k))

\* A snapshot in which one key is just pressed and another just released.
C1_Witness ==
  /\ h.snapshots >= 2
  /\ \E k1 \in Keys, k2 \in Keys : key_pressed(state, k1) /\ key_released(state, k2)

\* C2, as stated: a press event absorbed in a period shows as JustPressed at
\* the boundary that closes it, whatever follows it in the period, and as
\* Pressed from the second boundary on; likewise for a release.
C2_Original ==
  h.snapshots >= 1 =>
    /\ h.closed_pressed_in => status(state, h.wb) = "JustPressed"
    /\ (h.last_ev = "press" /\ h.age = 2) => status(state, h.wb) = "Pressed"
    /\ (h.last_ev = "release" /\ h.age = 1) => status(state, h.wb) = "JustReleased"
    /\ (h.last_ev = "release" /\ h.age = 2) => status(state, h.wb) = "Released"

\* C2, amended: when the last event for a button in a period is a press, the
\* next snapshot shows JustPressed and every later one Pressed until the next
\* event for that button; when it is a release, JustReleased and then
\* Released.  A button with no event yet reads Released.
C2_ButtonSequence ==
  h.snapshots >= 1 =>
    /\ (h.last_ev = "press" /\ h.age = 1) => status(state, h.wb) = "JustPressed"
    /\ (h.last_ev = "press" /\ h.age = 2) => status(state, h.wb) = "Pressed"
    /\ (h.last_ev = "release" /\ h.age = 1) => status(state, h.wb) = "JustReleased"
    /\ (h.last_ev = "release" /\ h.age = 2) => status(state, h.wb) = "Released"
    /\ h.last_ev = "none" => status(state, h.wb) = "Released"

\* The fourth snapshot, two boundaries after a release of the middle button.
C2_Witness ==
  /\ h.snapshots = 4
  /\ h.wb = "Middle"
  /\ h.last_ev = "release"
  /\ h.age = 2
  /\ status(state, h.wb) = "Released"

\* C3: the snapshot's scroll_delta is the sum of the vertical deltas of the
\* scroll events absorbed in the period the boundary closed.
C3_ScrollAccumulates ==
  h.snapshots >= 1 => state.scroll_delta = h.closed_scroll_sum

C5_Held ==
  pc # "panicked" =>
    /\ h.down => h.wk \in current.curr_keys
    /\ h.rep => h.wk \in current.repeat_keys

C5_RepeatStep ==
  (/\ h.down
   /\ h'.down
   /\ h'.klast = "down"
   /\ h'.kage = 0
   /\ h'.snapshots = h.snapshots
   /\ h'.quit = h.quit
   /\ [h' EXCEPT !.ev = h.ev] # h)
  => /\ current'.curr_keys = current.curr_keys
     /\ current'.repeat_keys = current.repeat_keys \cup {h.wk}

\* C5: from the first key-down of a key until its key-up the key is in
\* curr_keys; a further key-down puts it into repeat_keys, where it stays
\* until the boundary, and leaves curr_keys as it was.
C5_Repeat == []C5_Held /\ [][C5_RepeatStep]_vars

\* A key held since an earlier period has repeated in this one.
C5_Witness ==
  /\ h.snapshots >= 1
  /\ h.rep
  /\ h.kage = 0
  /\ h.wk \in state.curr_keys
  /\ current.repeat_keys = {h.wk}

\* C6: a key that goes down while not held and gets no further event is
\* pressed in the first snapshot and held but not pressed in every later
\* one; after its key-up it is released in the first snapshot and neither
\* released nor held in every later one.
C6_PressHoldRelease ==
  h.snapshots >= 1 =>
    /\ (h.scen = "down" /\ h.stage = 1) =>
         /\ h.wk \in state.curr_keys
         /\ h.wk \notin state.prev_keys
         /\ key_pressed(state, h.wk)
    /\ (h.scen = "down" /\ h.stage = 2) =>
         /\ h.wk \in state.curr_keys
         /\ h.wk \in state.prev_keys
         /\ ~key_pressed(state, h.wk)
         /\ key_held(state, h.wk)
    /\ (h.scen = "up" /\ h.stage = 1) => key_released(state, h.wk)
    /\ (h.scen = "up" /\ h.stage = 2) =>
         /\ ~key_released(state, h.wk)
         /\ ~key_held(state, h.wk)

\* The second snapshot after the key-up of a key that was seen held.
C6_Witness ==
  /\ h.scen = "up"
  /\ h.stage = 2
  /\ h.snapshots = 4

\* C7, as stated: the delta is the change of mouse_pos between consecutive
\* snapshots and the first snapshot reports no delta.
C7_Original ==
  h.snapshots >= 1 =>
    /\ state.mouse_delta = Vec2Sub(state.mouse_pos, h.prev.mouse_pos)
    /\ h.snapshots = 1 => state.mouse_delta = Vec2Zero

\* C7, amended: every snapshot's mouse_pos is the raw pointer position held
\* at its boundary and its mouse_delta is mouse_pos minus the mouse_pos of
\* the snapshot before, taking (0,0) as the position before the first
\* boundary; before the first boundary (frame 0) the delta is (0,0).
C7_MouseDelta ==
  /\ current.frame = 0 => current.mouse_delta = Vec2Zero /\ current.mouse_pos = Vec2Zero
  /\ h.snapshots >= 1 =>
       /\ state.mouse_pos = h.raw_pos
       /\ state.mouse_delta =
            Vec2Sub(state.mouse_pos, IF h.snapshots = 1 THEN Vec2Zero ELSE h.prev.mouse_pos)

\* A later snapshot whose pointer moved from one non-zero position to another.
C7_Witness ==
  /\ h.snapshots >= 2
  /\ h.prev.mouse_pos # Vec2Zero
  /\ state.mouse_delta # Vec2Zero
  /\ state.mouse_pos # state.mouse_delta

\* C8: the live scroll accumulator is 0 from a boundary until the next
\* scroll event, and a snapshot that closes a period without scroll events
\* has scroll_delta = 0.
C8_ScrollReset ==
  /\ h.scrolls = 0 => current.scroll_delta = 0
  /\ (h.snapshots >= 1 /\ h.closed_scrolls = 0) => state.scroll_delta = 0

\* A quiet period closed right after a period that scrolled.
C8_Witness ==
  /\ h.snapshots >= 2
  /\ h.closed_scrolls = 0
  /\ h.prev.scroll_delta # 0
  /\ state.scroll_delta = 0

\* C9: once a close-requested or loop-destroyed event was observed the
\* process is gone and no frame boundary is processed after it.
C9_NoFrameAfterExit ==
  /\ ~h.late
  /\ h.quit => pc = "exited"

\* The exit was observed after events and frames.
C9_Witness ==
  /\ h.quit
  /\ h.snapshots >= 1
  /\ budget < MaxMixed
  /\ calls # << >>

\* C10: the first snapshot carries the initial seed and each later one the
\* mix of the seed before it, whatever events and clock steps came between.
C10_SeedSequence ==
  h.snapshots >= 1 =>
    /\ h.snapshots = 1 => state.seed = h.seed0
    /\ h.snapshots >= 2 => state.seed = next_seed(h.prev.seed)

\* Three snapshots of a run that absorbed events and saw uneven clock steps.
C10_Witness ==
  /\ h.snapshots = 3
  /\ budget = 0
  /\ state.t = 5
  /\ state.seed # h.seed0

\* C11: every snapshot's screen_rect has origin (0,0), height 1 and, as its
\* width, the f32 quotient width / height of the last resize event absorbed
\* before its boundary, 1600 / 1600 if there was none; the outputs handed to
\* the application logic and the render call carry the same aspect ratio.
C11_ScreenRect ==
  h.snapshots >= 1 =>
    LET a == Div(h.closed_size.width, h.closed_size.height)
        render == calls[Len(calls)]
    IN  /\ state.screen_rect = RectNew(Zero, Zero, a, One)
        /\ calls[1].fn = "root_scene.frame"
        /\ calls[1].arg.outputs.canvas = a
        /\ render.fn = "video.render"
        /\ render.arg.outputs.canvas = a
        /\ render.arg.aspect = a

\* A snapshot taken after a resize to 800x600, with a later resize pending.
C11_Witness ==
  /\ h.snapshots >= 2
  /\ h.closed_size = [width |-> 800, height |-> 600]
  /\ state.screen_rect.w = <<4, 3>>
  /\ calls[Len(calls)].arg.aspect = <<4, 3>>
  /\ h.size # h.closed_size

C12_NoOpStep ==
  (h'.ev = "noop" /\ h.ev # "noop") =>
    /\ current' = current
    /\ instant_mouse_pos' = instant_mouse_pos
    /\ video' = video
    /\ t_last' = t_last
    /\ state' = state
    /\ calls' = calls
    /\ pc' = pc

\* C12: a key event without a virtual key code, a button event for a button
\* other than left, middle and right, and an event of any other kind leave
\* the accumulation state, the raw pointer position, the resolution and the
\* clock as they were, dispatch nothing and do not end the run.
C12_IgnoredNoOp == [][C12_NoOpStep]_vars

\* An ignored event arrived while a key is held and a button just pressed.
C12_Witness ==
  /\ h.ev = "noop"
  /\ h.snapshots >= 1
  /\ pc = "running"
  /\ current.curr_keys # {}
  /\ current.prev_keys = {}
  /\ current.lmb = "JustPressed"

C13_Counted ==
  /\ pc # "panicked" => current.frame = h.snapshots
  /\ h.snapshots >= 1 => state.frame = h.snapshots
  /\ h.snapshots >= 2 => state.frame = h.prev.frame + 1

C13_CountStep ==
  current'.frame # current.frame =>
    /\ current'.frame = current.frame + 1
    /\ h'.snapshots = h.snapshots + 1 \/ pc' = "panicked"

\* C13: the counter is 0 before the first boundary, the snapshot of the N-th
\* boundary has frame = N, one more than the snapshot before it, and only a
\* frame boundary changes the counter.
C13_FrameCounter == []C13_Counted /\ [][C13_CountStep]_vars

\* The third snapshot of a run that also absorbed a raw event.
C13_Witness ==
  /\ h.snapshots = 3
  /\ state.frame = 3
  /\ h.prev.frame = 2
  /\ current.frame = 3
  /\ budget = 0

C14_Absent ==
  \A k \in Keys :
    /\ k \notin current.curr_keys => on_key(current, k, "Released") = current
    /\ on_key(on_key(current, k, "Released"), k, "Released") = on_key(current, k, "Released")

C14_ReleaseStep ==
  (h'.ev = "reup" /\ h.ev # "reup") =>
    /\ current' = current
    /\ instant_mouse_pos' = instant_mouse_pos
    /\ state' = state
    /\ calls' = calls
    /\ pc' = pc

\* C14: a key-up for a key that is not in curr_keys leaves the accumulation
\* state as it was and does not end the run, and a second key-up for a key
\* leaves the state the first one left.
C14_ReleaseIdempotent == []C14_Absent /\ [][C14_ReleaseStep]_vars

\* A second key-up of a key the last snapshot shows held, while the other
\* key is held and has repeated.
C14_Witness ==
  /\ h.ev = "reup"
  /\ h.snapshots >= 1
  /\ h.wk \in state.curr_keys
  /\ h.wk \notin current.curr_keys
  /\ current.curr_keys # {}
  /\ current.repeat_keys # {}
  /\ pc = "running"

C15_Repeats ==
  /\ h.snapshots >= 1 => (h.wk \in state.repeat_keys <=> h.closed_rep)
  /\ pc # "panicked" => (h.wk \in current.repeat_keys <=> h.rep)

C15_BoundaryStep ==
  h'.snapshots = h.snapshots + 1 =>
    /\ state'.repeat_keys = current.repeat_keys
    /\ current'.repeat_keys = {}

\* C15: a key is in the snapshot's repeat_keys exactly if it received a
\* key-down while held during the period the boundary closed; the boundary
\* hands the live repeat set to the snapshot and leaves it empty, so that a
\* repeat of one period is not in the snapshot of the next.
C15_NoRepeatBleed == []C15_Repeats /\ [][C15_BoundaryStep]_vars

\* A key that repeated in one period and is still held, without repeating,
\* in the snapshot of the next.
C15_Witness ==
  /\ h.snapshots >= 2
  /\ h.prev_rep
  /\ ~h.closed_rep
  /\ h.wk \notin state.repeat_keys
  /\ h.wk \in state.curr_keys

C16_Status ==
  /\ h.snapshots >= 1 =>
       /\ h.closed_last = "press" => status(state, h.wb) = "JustPressed"
       /\ h.closed_last = "release" => status(state, h.wb) = "JustReleased"
       /\ h.closed_last = "none" => status(state, h.wb) = collapse(h.prev_status)
  /\ (pc # "panicked" /\ (h.last_ev = "none" \/ h.age >= 1)) =>
       /\ status(current, h.wb) \in {"Pressed", "Released"}
       /\ status(current, h.wb) = collapse(status(state, h.wb))

C16_CollapseStep ==
  h'.snapshots = h.snapshots + 1 =>
    \A b \in Buttons :
      /\ status(state', b) = status(current, b)
      /\ status(current', b) = collapse(status(current, b))

\* C16: a button's status in a snapshot is JustPressed if the last event for
\* it in the closed period was a press, JustReleased if it was a release,
\* and otherwise the collapsed status of the snapshot before; the boundary
\* copies the live status into the snapshot and then collapses it once, so
\* that the live status is steady until the next event for the button.
C16_LastEventCollapse == []C16_Status /\ [][C16_CollapseStep]_vars

\* A period without events for the right button, closed after a snapshot
\* that showed it JustPressed although a release came first in its period.
C16_Witness ==
  /\ h.snapshots >= 2
  /\ h.wb = "Right"
  /\ h.closed_last = "none"
  /\ h.prev_status = "JustPressed"
  /\ status(state, h.wb) = "Pressed"
  /\ state.rmb = "Pressed"
  /\ current.rmb = "Pressed"

C17_Position ==
  /\ pc # "panicked" => instant_mouse_pos = h.motion
  /\ h.snapshots >= 1 => state.mouse_pos = h.raw_pos
  /\ (pc # "panicked" /\ h.snapshots >= 1) => current.mouse_pos = state.mouse_pos
  /\ (pc # "panicked" /\ h.snapshots = 0) =>
       current.mouse_pos = Vec2Zero /\ current.mouse_delta = Vec2Zero

C17_MotionStep ==
  /\ h'.motion # h.motion \/ (h'.ev = "motion" /\ h.ev # "motion") =>
       /\ current' = current
       /\ state' = state
       /\ calls' = calls
  /\ current'.mouse_pos # current.mouse_pos =>
       /\ h'.snapshots = h.snapshots + 1 \/ pc' = "panicked"
       /\ current'.mouse_pos = h.motion
  /\ h'.snapshots = h.snapshots + 1 => state'.mouse_pos = h.motion

\* C17: a pointer-motion event changes the raw pointer position, which is
\* always the position of the last motion event, and nothing of the
\* accumulation state; mouse_pos changes only at a frame boundary, where it
\* becomes the position of the last motion event absorbed so far.
C17_MotionOnlyRaw == []C17_Position /\ [][C17_MotionStep]_vars

\* Two motion events in one period: the snapshot shows the second position
\* only, and a motion after the boundary has not reached mouse_pos.
C17_Witness ==
  /\ h.snapshots >= 2
  /\ h.closed_moves = 2
  /\ h.moves >= 1
  /\ state.mouse_pos # Vec2Zero
  /\ instant_mouse_pos # state.mouse_pos
  /\ current.mouse_pos = state.mouse_pos

C18_Calls ==
  h.snapshots >= 1 =>
    LET n == Len(h.logic.sounds)
        fresh == FrameOutputsNew(aspect(state.screen_rect))
        render == calls[Len(calls)]
    IN  /\ Len(calls) = n + 2
        /\ calls[1] = [fn |-> "root_scene.frame", arg |-> [inputs |-> state, outputs |-> fresh]]
        /\ fresh.sounds = << >> /\ fresh.draw_texture = << >>
        /\ fresh.set_texture = << >> /\ fresh.glyphs = << >>
        /\ \A i \in 1..n :
             calls[i + 1] = [fn |-> "audio.handle_command", arg |-> h.logic.sounds[i]]
        /\ render.fn = "video.render"
        /\ render.arg.outputs.sounds = h.logic.sounds
        /\ render.arg.outputs.draw_texture = h.logic.draw_texture
        /\ render.arg.aspect = aspect(state.screen_rect)

C18_DispatchStep ==
  /\ calls' # calls => h'.snapshots = h.snapshots + 1
  /\ h'.snapshots = h.snapshots + 1 =>
       /\ state'.curr_keys = current.curr_keys
       /\ state'.repeat_keys = current.repeat_keys
       /\ state'.prev_keys = current.prev_keys
       /\ state'.frame = current.frame + 1
       /\ current'.curr_keys = state'.curr_keys
       /\ current'.prev_keys = state'.curr_keys
       /\ current'.frame = state'.frame
       /\ instant_mouse_pos' = instant_mouse_pos

\* C18: the calls of a frame boundary are, in this order, the application
\* logic with the snapshot and outputs that are empty, one audio call for
\* each sound command the logic appended in this frame, in append order, and
\* one render call with the outputs of this frame; nothing is dispatched by
\* any other step, and the boundary step takes the snapshot from the live
\* state as the events left it and leaves the live state as the snapshot
\* and the reset pass determine it.
C18_DispatchOrder == []C18_Calls /\ [][C18_DispatchStep]_vars

\* A silent frame right after a frame that played two sounds and drew, with
\* the key held across both.
C18_Witness ==
  /\ h.snapshots >= 2
  /\ h.prev_logic.sounds = <<"s1", "s2">>
  /\ h.prev_logic.draw_texture = <<"d1">>
  /\ h.logic.sounds = << >>
  /\ h.logic.draw_texture = << >>
  /\ Len(calls) = 2
  /\ h.wk \in state.curr_keys

\* C19: the seed advance of every frame boundary completes with a 32-bit
\* value: no boundary ends the run on the overflow of seed * 196513497.
C19_SeedAdvanceTotal ==
  /\ pc # "panicked"
  /\ current.seed[1] \in 0..65535
  /\ current.seed[2] \in 0..65535

\* C20, as stated: in every snapshot repeat_keys is a subset of curr_keys, so
\* that a key reported as repeating is reported as held.
C20_Original ==
  h.snapshots >= 1 =>
    /\ state.repeat_keys \subseteq state.curr_keys
    /\ \A k \in Keys : key_pressed_or_repeating(state, k) => key_held(state, k)

\* C20, amended: a key in the snapshot's repeat_keys is also in curr_keys
\* unless the last event for it in the closed period was a key-up; a key
\* that repeated and was then released within the period is reported as
\* repeating and not as held.
C20_RepeatHeld ==
  h.snapshots >= 1 =>
    /\ (h.wk \in state.repeat_keys /\ h.closed_klast # "up") => h.wk \in state.curr_keys
    /\ (h.closed_rep /\ h.closed_klast = "up") =>
         /\ h.wk \in state.repeat_keys
         /\ h.wk \notin state.curr_keys
         /\ key_pressed_or_repeating(state, h.wk)
         /\ ~key_held(state, h.wk)
    /\ (h.closed_rep /\ h.closed_klast = "down") =>
         /\ key_pressed_or_repeating(state, h.wk)
         /\ key_held(state, h.wk)

\* The snapshot of a period in which a held key repeated and was released.
C20_Witness ==
  /\ h.snapshots >= 2
  /\ h.closed_rep
  /\ h.closed_klast = "up"
  /\ h.wk \in state.repeat_keys
  /\ h.wk \in state.prev_keys
  /\ h.wk \notin state.curr_keys

====
